---- MODULE Spec2Model ----
(***************************************************************************)
(* Real-time presence/broadcast engine of location_tracker.                *)
(*                                                                         *)
(*   Presence Hub     pages/api/socket handler (src/unnamed/part_000):     *)
(*                    the connectedUsers registry and the connection,      *)
(*                    send-location and disconnect handlers.               *)
(*   Peer Reconciler  src/components/MapComponent.tsx: the socket listener *)
(*                    effect with handleReceiveLocation and                *)
(*                    handleUserDisconnected over markersRef.              *)
(*   Transport        socket.io: one FIFO queue of events per server-side  *)
(*                    socket; a client socket that loses its connection    *)
(*                    reconnects under a fresh socket id                   *)
(*                    (src/app/page.tsx).                                  *)
(*                                                                         *)
(*   Spec             the Hub, two tabs and the transport between them.    *)
(*   HubSpec          the Hub alone, its handlers run on any input.        *)
(*   ReconcilerSpec   the Peer Reconciler of one tab alone, its listeners  *)
(*                    run on any event stream while time passes.           *)
(*   AccuracySpec     the Hub alone on reports whose accuracy is not a     *)
(*                    non-negative number.                                 *)
(*   MalformedSpec    the Peer Reconciler of one tab alone on events       *)
(*                    without a numeric timestamp.                         *)
(*   PageSpec         one tab's geolocation watch and the page's controls. *)
(*   ServerSpec       the route handler and the Hub it sets up, from a     *)
(*                    server that has served no request yet.               *)
(***************************************************************************)
EXTENDS Integers, Sequences, FiniteSets, TLC

(***************************************************************************)
(* Bounds of the model.                                                    *)
(***************************************************************************)
\* number of socket ids the transport hands out in one run
MaxId == 3
\* events queued on the server-side sockets and not yet read by their clients
MaxInFlight == 2
\* clock ticks (ms) after the initial instant
MaxTicks == 1
\* socket ids of other clients whose events reach the tab of ReconcilerSpec
MaxPeers == 2
\* calls of getCurrentPosition, and of setBearing, counted per tab
MaxCalls == 2

\* browser tabs running the page
Clients == {"a", "b"}

Ids == 1..MaxId

\* parseInt(process.env.NEXT_PUBLIC_LOCATION_DATA_EXPIRY || "30000")
DataExpiry == 30000

(***************************************************************************)
(* JavaScript values that can arrive in a payload field.                   *)
(***************************************************************************)
Num(n) == [t |-> "number", v |-> n]
Undefined == [t |-> "undefined", v |-> 0]
Str == [t |-> "string", v |-> 0]
NaN == [t |-> "nan", v |-> 0]
Infinity == [t |-> "infinity", v |-> 0]

\* typeof x: NaN and Infinity are of type "number"
TypeOf(x) == IF x.t \in {"number", "nan", "infinity"} THEN "number" ELSE x.t

\* x >= n and x <= n on a value whose typeof is "number": false on NaN;
\* Infinity is above every n
Ge(x, n) == (x.t = "number" /\ x.v >= n) \/ x.t = "infinity"
Le(x, n) == x.t = "number" /\ x.v <= n

\* Date.now() - x: NaN unless x is a number
Minus(n, x) == IF x.t = "number" THEN Num(n - x.v) ELSE NaN

\* x > n: false on NaN
Gt(x, n) == x.t = "number" /\ x.v > n

\* truthiness of a value: undefined, NaN and 0 are falsy
Truthy(x) == x.t \in {"string", "infinity"} \/ (x.t = "number" /\ x.v # 0)

\* a payload that cannot be destructured (undefined / null)
NoData == [nodata |-> TRUE]

Report(lat, lon, acc, ts) ==
  [latitude |-> lat, longitude |-> lon, accuracy |-> acc, timestamp |-> ts]

VARIABLES
  now,            \* Date.now() / new Date()
  servers,        \* Socket.IO servers created so far (server.io is set
                  \* once there is one)
  nextId,         \* next socket id the transport assigns
  sockets,        \* server side: sockets connected to the io namespace
  connectedUsers, \* the Hub's registry: socket id -> record
  inbox,          \* events emitted to a socket and not yet read by its client
  sid,            \* client side: socket.id (0: not connected)
  isMapReady,     \* client side: isMapReady && mapInstanceRef.current
  markersRef,     \* client side: markersRef.current, id -> marker
  leaked,         \* client side: layers on the map no marker refers to
  mounted,        \* client side: the MapComponent instance is mounted
  pending,        \* client side: checkLocationPermission() of the watch
                  \* effect has not resolved yet
  watchIdRef,     \* client side: watchIdRef.current (0: null)
  watches,        \* navigator.geolocation: ids of the active watches
  locationPermission, \* client side: the locationPermission state
  requests,       \* navigator.geolocation: getCurrentPosition calls made
  bearingResets,  \* the map: setBearing(0) calls made
  callbacks,      \* navigator.geolocation: getCurrentPosition requests not
                  \* yet answered, per function that made them
  userMarkerRef,  \* client side: userMarkerRef.current is set (own marker)
  sent,           \* client side: send-location reports emitted
  fed             \* the input last applied directly to a handler, if any

vars == <<now, servers, nextId, sockets, connectedUsers, inbox, sid,
          isMapReady, markersRef, leaked, mounted, pending, watchIdRef,
          watches, locationPermission, requests, bearingResets, callbacks,
          userMarkerRef, sent, fed>>

hubVars == <<servers, nextId, sockets, connectedUsers, inbox>>
clientVars == <<sid, isMapReady, markersRef, leaked>>
ownVars == <<callbacks, userMarkerRef, sent>>
geoVars == <<mounted, pending, watchIdRef, watches, locationPermission,
             requests, bearingResets, ownVars>>

\* the getCurrentPosition callbacks of the component, by the function that
\* passes them
Requesters == {"requestLocationPermission", "refreshLocation"}

\* everything but the Socket.IO server
Booted ==
  /\ now = DataExpiry
  /\ nextId = 1
  /\ sockets = {}
  /\ connectedUsers = << >>
  /\ inbox = [s \in Ids |-> << >>]
  /\ sid = [c \in Clients |-> 0]
  /\ isMapReady = [c \in Clients |-> FALSE]
  /\ markersRef = [c \in Clients |-> << >>]
  /\ leaked = [c \in Clients |-> 0]
  /\ mounted = [c \in Clients |-> TRUE]
  /\ pending = [c \in Clients |-> FALSE]
  /\ watchIdRef = [c \in Clients |-> 0]
  /\ watches = [c \in Clients |-> {}]
  /\ locationPermission = [c \in Clients |-> "null"]
  /\ requests = [c \in Clients |-> 0]
  /\ bearingResets = [c \in Clients |-> 0]
  /\ callbacks = [c \in Clients |-> [f \in Requesters |-> 0]]
  /\ userMarkerRef = [c \in Clients |-> FALSE]
  /\ sent = [c \in Clients |-> 0]
  /\ fed = [op |-> "none"]

\* the first request to /api/socket has been served: the Hub is running
Init == Booted /\ servers = 1

(***************************************************************************)
(* Events on the wire.                                                     *)
(***************************************************************************)
ConnectedMsg(id) ==
  [event |-> "connected", id |-> id, message |-> "Connected to server"]

ReceiveLocationMsg(id, lat, lon, acc, ts) ==
  [event |-> "receive-location", id |-> id, latitude |-> lat,
   longitude |-> lon, accuracy |-> acc, timestamp |-> ts]

UserDisconnectedMsg(id) == [event |-> "user-disconnected", id |-> id]

ErrorMsg(text) == [event |-> "error", message |-> text]

(***************************************************************************)
(* Transport: socket.emit, socket.broadcast.emit and io.emit append to the *)
(* queues of the addressed sockets.  `conns` is the set of sockets in the  *)
(* namespace at the time of the call.                                      *)
(***************************************************************************)
Emit(q, to, msg) == [q EXCEPT ![to] = Append(@, msg)]

\* io.emit in place of socket.broadcast.emit: the sender is not excluded
BroadcastToAll(q, conns, from, msg) ==
  [s \in Ids |-> IF s \in conns THEN Append(q[s], msg) ELSE q[s]]

\* the event jumps the queue of every addressed socket
BroadcastFirst(q, conns, from, msg) ==
  [s \in Ids |-> IF s \in conns /\ s # from THEN <<msg>> \o q[s] ELSE q[s]]

Broadcast(q, conns, from, msg) ==
  [s \in Ids |-> IF s \in conns /\ s # from THEN Append(q[s], msg) ELSE q[s]]

\* socket.emit on the departed socket in place of io.emit: nobody is told
EmitToNone(q, conns, msg) == q

EmitAll(q, conns, msg) ==
  [s \in Ids |-> IF s \in conns THEN Append(q[s], msg) ELSE q[s]]

RECURSIVE Queued(_, _)
\* number of events queued on the sockets in S
Queued(q, S) ==
  IF S = {} THEN 0
  ELSE LET s == CHOOSE x \in S : TRUE IN Len(q[s]) + Queued(q, S \ {s})

\* bound: the queues have room for one more event to each socket in conns
HasRoom(conns) == Queued(inbox, Ids) + Cardinality(conns) <= MaxInFlight

(***************************************************************************)
(* Presence Hub.                                                           *)
(***************************************************************************)
\* a Map entry right after connection: only connectedAt is set
NewUser(at) ==
  [connectedAt |-> Num(at), latitude |-> Undefined, longitude |-> Undefined,
   accuracy |-> Undefined, lastUpdate |-> Undefined, timestamp |-> Undefined]

\* what { ...undefined } spreads to: no field set
NoUser == [NewUser(0) EXCEPT !.connectedAt = Undefined]

\* connectedUsers.get(id)
Get(users, id) == IF id \in DOMAIN users THEN users[id] ELSE NoUser

\* connectedUsers.set(id, rec)
Set(users, id, rec) ==
  [k \in DOMAIN users \cup {id} |-> IF k = id THEN rec ELSE users[k]]

\* the entry is left in the Map
DeleteNothing(users, id) == users

\* connectedUsers.delete(id)
Delete(users, id) == [k \in DOMAIN users \ {id} |-> users[k]]

\* the check without the upper bound of the latitude
IsValidLocationNoUpper(latitude, longitude) ==
  /\ TypeOf(latitude) = "number"
  /\ TypeOf(longitude) = "number"
  /\ Ge(latitude, -90)
  /\ Ge(longitude, -180)
  /\ Le(longitude, 180)

\* the check with the typeof tests only
IsValidLocationTypeOnly(latitude, longitude) ==
  /\ TypeOf(latitude) = "number"
  /\ TypeOf(longitude) = "number"

\* the range/type check of the send-location handler
IsValidLocation(latitude, longitude) ==
  /\ TypeOf(latitude) = "number"
  /\ TypeOf(longitude) = "number"
  /\ Ge(latitude, -90)
  /\ Le(latitude, 90)
  /\ Ge(longitude, -180)
  /\ Le(longitude, 180)

\* const { latitude, longitude, accuracy, timestamp } = data throws on
\* undefined / null
Destructurable(data) == "latitude" \in DOMAIN data

\* the record is built without the spread of the old one
UpdatedUserFresh(old, data, at) ==
  [NoUser EXCEPT !.latitude = data.latitude, !.longitude = data.longitude,
                 !.accuracy = data.accuracy, !.lastUpdate = Num(at),
                 !.timestamp = data.timestamp]

\* the record the send-location handler stores for a valid report
UpdatedUser(old, data, at) ==
  [old EXCEPT !.latitude = data.latitude, !.longitude = data.longitude,
              !.accuracy = data.accuracy, !.lastUpdate = Num(at),
              !.timestamp = data.timestamp]

\* io.emit in place of socket.emit: every connected socket gets the ack
ConnectionHandlerAnnounce(id) ==
  /\ HasRoom(sockets \cup {id})
  /\ connectedUsers' = Set(connectedUsers, id, NewUser(now))
  /\ inbox' = EmitAll(inbox, sockets \cup {id}, ConnectedMsg(id))

\* io.on("connection") for the socket the transport has just given `id`: the
\* Hub registers it and acknowledges to that socket only
ConnectionHandler(id) ==
  /\ HasRoom({id})
  /\ connectedUsers' = Set(connectedUsers, id, NewUser(now))
  /\ inbox' = Emit(inbox, id, ConnectedMsg(id))

\* the transport accepts a connection: the new socket takes the next id and
\* joins the namespace, then the connection handler runs
Accept ==
  /\ servers >= 1
  /\ nextId <= MaxId
  /\ nextId' = nextId + 1
  /\ sockets' = sockets \cup {nextId}
  /\ ConnectionHandler(nextId)

\* the client socket of tab c (io(socketUrl, ...) in the page, or its
\* automatic reconnection) connects and takes the id the transport assigned
Connect(c) ==
  /\ sid[c] = 0
  /\ Accept
  /\ sid' = [sid EXCEPT ![c] = nextId]
  /\ UNCHANGED <<now, servers, isMapReady, markersRef, leaked, geoVars, fed>>

\* a rejected report costs the sender its record
OnSendLocationFatal(id, data) ==
  /\ id \in sockets
  /\ IF Destructurable(data) /\ IsValidLocation(data.latitude, data.longitude)
       THEN /\ inbox' = Broadcast(inbox, sockets, id,
                          ReceiveLocationMsg(id, data.latitude, data.longitude,
                                             data.accuracy, data.timestamp))
            /\ HasRoom(sockets \ {id})
            /\ connectedUsers' =
                 Set(connectedUsers, id,
                     UpdatedUser(Get(connectedUsers, id), data, now))
       ELSE /\ inbox' = Emit(inbox, id, ErrorMsg("Invalid location data"))
            /\ HasRoom({id})
            /\ connectedUsers' = Delete(connectedUsers, id)
  /\ UNCHANGED <<now, servers, nextId, sockets, sid, isMapReady, markersRef, leaked, geoVars, fed>>

\* socket.on("send-location")
OnSendLocation(id, data) ==
  /\ id \in sockets
  /\ IF ~Destructurable(data)
       THEN /\ inbox' = Emit(inbox, id, ErrorMsg("Error processing location data"))
            /\ HasRoom({id})
            /\ UNCHANGED connectedUsers
       ELSE IF IsValidLocation(data.latitude, data.longitude)
         THEN /\ inbox' = Broadcast(inbox, sockets, id,
                            ReceiveLocationMsg(id, data.latitude, data.longitude,
                                               data.accuracy, data.timestamp))
              /\ HasRoom(sockets \ {id})
              /\ connectedUsers' =
                   Set(connectedUsers, id,
                       UpdatedUser(Get(connectedUsers, id), data, now))
         ELSE /\ inbox' = Emit(inbox, id, ErrorMsg("Invalid location data"))
              /\ HasRoom({id})
              /\ UNCHANGED connectedUsers
  /\ UNCHANGED <<now, servers, nextId, sockets, sid, isMapReady, markersRef, leaked, geoVars, fed>>

\* the body of socket.on("disconnect"), run when the namespace holds `conns`
DisconnectHandler(id, conns) ==
  /\ HasRoom(conns)
  /\ connectedUsers' = Delete(connectedUsers, id)
  /\ inbox' = EmitAll([inbox EXCEPT ![id] = << >>], conns,
                      UserDisconnectedMsg(id))

\* the connection of socket id is torn down (voluntary close, network
\* failure or ping timeout): the socket leaves the namespace, its disconnect
\* handler runs (socket.io fires it once per socket) and the client socket
\* that held the id has socket.id cleared.  With reconnection: true the
\* client connects again later, under a new id; the page's "disconnect" and
\* "reconnect" listeners only set the status banner.
OnDisconnect(id) ==
  /\ id \in sockets
  /\ sockets' = sockets \ {id}
  /\ DisconnectHandler(id, sockets \ {id})
  /\ sid' = [c \in Clients |-> IF sid[c] = id THEN 0 ELSE sid[c]]
  /\ UNCHANGED <<now, servers, nextId, isMapReady, markersRef, leaked, geoVars, fed>>

(***************************************************************************)
(* Peer Reconciler.                                                        *)
(***************************************************************************)
\* marker.accuracyCircle: unset, or a circle that is or is not on the map
NoCircle == [set |-> FALSE, radius |-> Undefined, onMap |-> FALSE]

\* window.L.circle([latitude, longitude], {radius}).addTo(map)
Circle(radius) == [set |-> TRUE, radius |-> radius, onMap |-> TRUE]

\* window.L.marker([latitude, longitude], ...).addTo(map)
Marker(latitude, longitude) ==
  [latitude |-> latitude, longitude |-> longitude, accuracyCircle |-> NoCircle]

\* marker.accuracyCircle = circle: a circle still on the map whose only
\* reference is overwritten stays on the map for good
SetCircle(marker, circle) ==
  [marker |-> [marker EXCEPT !.accuracyCircle = circle],
   lost |-> IF marker.accuracyCircle.set /\ marker.accuracyCircle.onMap
              THEN 1 ELSE 0]

\* the old circle is left on the map
RemoveCircleNot(marker) == marker

\* if (marker.accuracyCircle) map.removeLayer(marker.accuracyCircle)
RemoveCircle(marker) ==
  IF marker.accuracyCircle.set
    THEN [marker EXCEPT !.accuracyCircle.onMap = FALSE]
    ELSE marker

\* the test with >= in place of >
IsExpiredAtWindow(at, timestamp) ==
  LET age == Minus(at, timestamp) IN age.t = "number" /\ age.v >= DataExpiry

\* the staleness test of handleReceiveLocation
IsExpired(at, timestamp) == Gt(Minus(at, timestamp), DataExpiry)

\* the id is compared with the id the socket had first
IsOwnFirstId(id, self) == id = 1 /\ self # 0

\* the self-echo test of handleReceiveLocation: id === socket.id
IsOwn(id, self) == id = self

\* accuracy circles of the marker that are on the map
OnMapCircles(marker) ==
  IF marker.accuracyCircle.set /\ marker.accuracyCircle.onMap THEN 1 ELSE 0

\* the update path is missing: a marker is created for every accepted
\* event, and the layers of the entry it replaces stay on the map
ReceiveLocationAlwaysCreates(m, self, data, at) ==
  IF IsOwn(data.id, self) THEN [markers |-> m, lost |-> 0]
  ELSE IF IsExpired(at, data.timestamp) THEN [markers |-> m, lost |-> 0]
  ELSE
    LET id == data.id
        created == Marker(data.latitude, data.longitude)
        circled == IF Truthy(data.accuracy)
                     THEN SetCircle(created, Circle(data.accuracy)).marker
                     ELSE created
    IN [markers |-> Set(m, id, circled),
        lost |-> IF id \in DOMAIN m THEN 1 + OnMapCircles(m[id]) ELSE 0]

\* handleReceiveLocation(data) on the marker table m of the client whose
\* socket.id is self, at time at: the new table and the layers it orphans
ReceiveLocation(m, self, data, at) ==
  IF IsOwn(data.id, self) THEN [markers |-> m, lost |-> 0]
  ELSE IF IsExpired(at, data.timestamp) THEN [markers |-> m, lost |-> 0]
  ELSE
    LET id == data.id
        moved ==
          IF id \in DOMAIN m
            THEN [m EXCEPT ![id] =
                    RemoveCircle([@ EXCEPT !.latitude = data.latitude,
                                           !.longitude = data.longitude])]
            ELSE Set(m, id, Marker(data.latitude, data.longitude))
        circled == SetCircle(moved[id], Circle(data.accuracy))
    IN IF Truthy(data.accuracy)
         THEN [markers |-> [moved EXCEPT ![id] = circled.marker],
               lost |-> circled.lost]
         ELSE [markers |-> moved, lost |-> 0]

\* every marker is dropped
UserDisconnectedAll(m, id) == << >>

\* handleUserDisconnected(id) on the marker table m
UserDisconnected(m, id) ==
  IF id \in DOMAIN m THEN Delete(m, id) ELSE m

\* layers of id left on the map by handleUserDisconnected(id): it removes
\* the accuracy circle, if set, and the marker before it deletes the entry
UserDisconnectedLost(m, id) ==
  IF id \in DOMAIN m THEN OnMapCircles(RemoveCircle(m[id])) ELSE 0

\* what the listeners registered on the client socket do with one event;
\* receive-location and user-disconnected are listened to only once the
\* listener effect ran (socket set and map ready), the other events only
\* change the status banner
Dispatch(c, msg) ==
  IF isMapReady[c] /\ msg.event = "receive-location"
    THEN LET r == ReceiveLocation(markersRef[c], sid[c], msg, now) IN
           /\ markersRef' = [markersRef EXCEPT ![c] = r.markers]
           /\ leaked' = [leaked EXCEPT ![c] = @ + r.lost]
    ELSE IF isMapReady[c] /\ msg.event = "user-disconnected"
      THEN /\ markersRef' = [markersRef EXCEPT ![c] = UserDisconnected(@, msg.id)]
           /\ leaked' = [leaked EXCEPT
                           ![c] = @ + UserDisconnectedLost(markersRef[c], msg.id)]
      ELSE UNCHANGED <<markersRef, leaked>>

\* the client socket of tab c reads the next event queued for it
Deliver(c) ==
  /\ sid[c] \in sockets
  /\ inbox[sid[c]] # << >>
  /\ inbox' = [inbox EXCEPT ![sid[c]] = Tail(@)]
  /\ Dispatch(c, Head(inbox[sid[c]]))
  /\ UNCHANGED <<now, servers, nextId, sockets, connectedUsers, sid, isMapReady, geoVars, fed>>

\* initializeMapInstance succeeded: setIsMapReady(true); on the render that
\* follows the watch effect runs and calls checkLocationPermission()
MapReady(c) ==
  /\ mounted[c]
  /\ ~isMapReady[c]
  /\ isMapReady' = [isMapReady EXCEPT ![c] = TRUE]
  /\ pending' = [pending EXCEPT ![c] = TRUE]
  /\ UNCHANGED <<now, hubVars, sid, markersRef, leaked, mounted, watchIdRef,
                 watches, locationPermission, requests, bearingResets,
                 ownVars, fed>>

\* time passes
Tick ==
  /\ now < DataExpiry + MaxTicks
  /\ now' = now + 1
  /\ UNCHANGED <<hubVars, clientVars, geoVars, fed>>

(***************************************************************************)
(* The system: the Hub, two tabs and the transport between them.           *)
(***************************************************************************)
\* payloads a client socket may send as send-location
ReportInputs ==
  { Report(Num(10), Num(20), Num(5), Num(DataExpiry)),
    Report(Num(-90), Num(180), Undefined, Num(0)),
    Report(Num(91), Num(20), Num(5), Num(DataExpiry)),
    Report(Num(10), Num(-181), Num(5), Num(DataExpiry)),
    Report(Str, Num(20), Num(5), Num(DataExpiry)),
    Report(Num(10), Undefined, Undefined, Num(DataExpiry)),
    Report(NaN, Num(20), Num(5), Num(DataExpiry)),
    Report(Num(10), Infinity, Num(5), Num(DataExpiry)),
    NoData }

Next ==
  \/ \E c \in Clients : Connect(c)
  \/ \E id \in Ids, data \in ReportInputs : OnSendLocation(id, data)
  \/ \E id \in Ids : OnDisconnect(id)
  \/ \E c \in Clients : Deliver(c)
  \/ \E c \in Clients : MapReady(c)

Spec == Init /\ [][Next]_vars

(***************************************************************************)
(* The Hub alone: its handlers run on whatever the transport presents, for *)
(* up to MaxId sockets at once.  No tab is modelled; queued events are     *)
(* taken off the queues by the transport.                                  *)
(***************************************************************************)
\* a connection from a client that is not one of the modelled tabs
OnConnection ==
  /\ Accept
  /\ UNCHANGED <<now, servers, sid, isMapReady, markersRef, leaked, geoVars, fed>>

\* the transport hands the next queued event of a socket to its client
Flush(id) ==
  /\ id \in sockets
  /\ inbox[id] # << >>
  /\ inbox' = [inbox EXCEPT ![id] = Tail(@)]
  /\ UNCHANGED <<now, servers, nextId, sockets, connectedUsers, clientVars, geoVars, fed>>

\* the disconnect handler of a socket runs again, after the socket has left
\* the namespace and its record is gone
OnDisconnectAgain(id) ==
  /\ id < nextId
  /\ id \notin sockets
  /\ DisconnectHandler(id, sockets)
  /\ fed' = [op |-> "disconnect", id |-> id]
  /\ UNCHANGED <<now, servers, nextId, sockets, clientVars, geoVars>>

HubNext ==
  \/ OnConnection
  \/ \E id \in Ids, data \in ReportInputs : OnSendLocation(id, data)
  \/ \E id \in Ids : OnDisconnect(id)
  \/ \E id \in Ids : OnDisconnectAgain(id)
  \/ \E id \in Ids : Flush(id)

HubSpec == Init /\ [][HubNext]_vars

(***************************************************************************)
(* The route handler: requests to /api/socket reach SocketHandler, the     *)
(* first one on a server that has no Socket.IO server yet.                 *)
(***************************************************************************)
\* what a request to /api/socket was answered with
Answered(status, log) == [op |-> "request", status |-> status, log |-> log]

\* the handler without its `if (server.io)` test
SocketHandlerNoGuard(hasSocket) ==
  /\ IF ~hasSocket
       THEN /\ fed' = Answered(500, "Socket not available")
            /\ UNCHANGED <<servers, connectedUsers>>
       ELSE /\ servers' = servers + 1
            /\ connectedUsers' = << >>
            /\ fed' = Answered(200, "Setting up socket")
  /\ UNCHANGED <<now, nextId, sockets, inbox, clientVars, geoVars>>

\* SocketHandler(req, res); hasSocket is whether res.socket is set.  The
\* handler is synchronous: it answers 500, or finds server.io and ends the
\* response, or creates the Socket.IO server with a new registry, stores it
\* in server.io and ends the response.
SocketHandler(hasSocket) ==
  /\ IF ~hasSocket
       THEN /\ fed' = Answered(500, "Socket not available")
            /\ UNCHANGED <<servers, connectedUsers>>
       ELSE IF servers >= 1
         THEN /\ fed' = Answered(200, "Socket is already running")
              /\ UNCHANGED <<servers, connectedUsers>>
         ELSE /\ servers' = servers + 1
              /\ connectedUsers' = << >>
              /\ fed' = Answered(200, "Setting up socket")
  /\ UNCHANGED <<now, nextId, sockets, inbox, clientVars, geoVars>>

\* the server process has started and no request has reached /api/socket
ServerInit == Booted /\ servers = 0

\* the reports of ReportInputs that the Hub accepts
AcceptedInputs ==
  { data \in ReportInputs :
      Destructurable(data) /\ IsValidLocation(data.latitude, data.longitude) }

ServerNext ==
  \/ \E hasSocket \in BOOLEAN : SocketHandler(hasSocket)
  \/ OnConnection
  \/ \E id \in Ids, data \in AcceptedInputs : OnSendLocation(id, data)
  \/ \E id \in Ids : OnDisconnect(id)
  \/ \E id \in Ids : Flush(id)

ServerSpec == ServerInit /\ [][ServerNext]_vars

(***************************************************************************)
(* One Peer Reconciler alone: the listeners of one tab run on an arbitrary *)
(* stream of events, across reconnects of the tab's socket and as time     *)
(* passes.                                                                 *)
(***************************************************************************)
Tab == CHOOSE c \in Clients : TRUE

\* ids an event reaching the socket of tab c may carry: the tab's own and
\* those of a few peers
EventIds(c) == (1..MaxPeers) \cup ({sid[c]} \ {0})

\* positions and accuracies of the events
Positions == {<<Num(10), Num(20)>>, <<Num(-90), Num(20)>>}
Accuracies == {Num(5), Num(0), Undefined}

\* receive-location events a server may send to tab c
EventInputs(c) ==
  { ReceiveLocationMsg(id, pos[1], pos[2], acc, ts) :
      id \in EventIds(c), pos \in Positions, acc \in Accuracies,
      ts \in {Num(0), Num(1)} }

\* what fed keeps of an event: its kind, id and timestamp, the id the socket
\* had and the time when the event was read
Fed(msg, self, at) ==
  [op |-> "event", event |-> msg.event, id |-> msg.id,
   timestamp |-> IF "timestamp" \in DOMAIN msg THEN msg.timestamp ELSE Undefined,
   self |-> self, at |-> at]

\* the socket of tab c receives msg
Feed(c, msg) ==
  /\ sid[c] # 0
  /\ fed' = Fed(msg, sid[c], now)
  /\ UNCHANGED <<now, hubVars, sid, isMapReady, geoVars>>
  /\ Dispatch(c, msg)

ReconcilerNext ==
  \/ Connect(Tab)
  \/ \E id \in Ids : OnDisconnect(id)
  \/ MapReady(Tab)
  \/ Tick
  \/ \E msg \in EventInputs(Tab) : Feed(Tab, msg)
  \/ \E id \in EventIds(Tab) : Feed(Tab, UserDisconnectedMsg(id))

ReconcilerSpec == Init /\ [][ReconcilerNext]_vars

\* position events whose timestamp is missing or not a number
MalformedInputs(c) ==
  { ReceiveLocationMsg(id, pos[1], pos[2], acc, ts) :
      id \in EventIds(c), pos \in Positions, acc \in {Num(5), Undefined},
      ts \in {Undefined, Str} }

\* the Peer Reconciler of one tab alone on such events
MalformedNext ==
  \/ Connect(Tab)
  \/ \E id \in Ids : OnDisconnect(id)
  \/ MapReady(Tab)
  \/ Tick
  \/ \E msg \in MalformedInputs(Tab) : Feed(Tab, msg)
  \/ \E id \in EventIds(Tab) : Feed(Tab, UserDisconnectedMsg(id))

MalformedSpec == Init /\ [][MalformedNext]_vars

\* valid positions whose accuracy is not a non-negative number
AccuracyInputs ==
  { Report(Num(10), Num(20), Num(-5), Num(DataExpiry)),
    Report(Num(-90), Num(180), Str, Num(0)) }

\* the Hub alone on reports with such an accuracy
AccuracyNext ==
  \/ OnConnection
  \/ \E id \in Ids, data \in AccuracyInputs : OnSendLocation(id, data)
  \/ \E id \in Ids : OnDisconnect(id)
  \/ \E id \in Ids : Flush(id)

AccuracySpec == Init /\ [][AccuracyNext]_vars

(***************************************************************************)
(* Geolocation and the page's controls (one tab, no connection needed).    *)
(* The page creates its socket when it mounts, before the map can be       *)
(* ready, and never replaces it: with the map ready the watch effect has   *)
(* run once, and its cleanup runs when the component unmounts.             *)
(***************************************************************************)
PermissionStates == {"granted", "prompt", "denied"}

\* the id navigator.geolocation.watchPosition returns: a fresh positive one
NewWatchId(c) == watchIdRef[c] + 1

\* the promise of checkLocationPermission() resolves and the .then callback
\* of the watch effect runs; nothing cancels it when the effect was cleaned
\* up in the meantime
PermissionResolved(c, state) ==
  /\ pending[c]
  /\ pending' = [pending EXCEPT ![c] = FALSE]
  /\ locationPermission' =
       IF mounted[c] THEN [locationPermission EXCEPT ![c] = state]
                     ELSE locationPermission
  /\ IF state = "granted"
       THEN /\ watches' = [watches EXCEPT ![c] = @ \cup {NewWatchId(c)}]
            /\ watchIdRef' = [watchIdRef EXCEPT ![c] = NewWatchId(c)]
       ELSE UNCHANGED <<watches, watchIdRef>>
  /\ UNCHANGED <<now, hubVars, clientVars, mounted, requests, bearingResets,
                 ownVars, fed>>

\* cleanup of the watch effect: clearWatch(watchIdRef.current) if it is set
WatchCleanup(c) ==
  IF watchIdRef[c] # 0
    THEN [watches EXCEPT ![c] = @ \ {watchIdRef[c]}]
    ELSE watches

\* the component unmounts: the cleanups of its effects run (the watch effect
\* has one only if it ran with the map ready)
Unmount(c) ==
  /\ mounted[c]
  /\ mounted' = [mounted EXCEPT ![c] = FALSE]
  /\ isMapReady' = [isMapReady EXCEPT ![c] = FALSE]
  /\ watches' = IF isMapReady[c] THEN WatchCleanup(c) ELSE watches
  /\ UNCHANGED <<now, hubVars, sid, markersRef, leaked, pending, watchIdRef,
                 locationPermission, requests, bearingResets, ownVars, fed>>

Clicked(control) == [op |-> "click", control |-> control]
Called(function) == [op |-> "call", function |-> function]

\* the "Allow Location Access" button of the overlay: requestLocationPermission
RequestLocationPermission(c) ==
  /\ mounted[c]
  /\ isMapReady[c]
  /\ locationPermission[c] # "granted"
  /\ requests[c] < MaxCalls
  /\ requests' = [requests EXCEPT ![c] = @ + 1]
  /\ callbacks' = [callbacks EXCEPT ![c]["requestLocationPermission"] = @ + 1]
  /\ fed' = Clicked("allow")
  /\ UNCHANGED <<now, hubVars, clientVars, mounted, pending, watchIdRef,
                 watches, locationPermission, bearingResets, userMarkerRef,
                 sent>>

\* the refresh button of the page: onClick={refreshLocation} is the page's
\* own function, which sets the status banner (not part of the state)
ClickRefresh(c) ==
  /\ mounted[c]
  /\ fed' = Clicked("refresh")
  /\ UNCHANGED <<now, hubVars, clientVars, geoVars>>

\* the north indicator of the page: onClick={resetMapRotation} is the page's
\* own function, which sets the status banner
ClickNorth(c) ==
  /\ mounted[c]
  /\ fed' = Clicked("north")
  /\ UNCHANGED <<now, hubVars, clientVars, geoVars>>

\* refreshLocation of the component, reachable as window.refreshLocation
RefreshLocation(c) ==
  /\ mounted[c]
  /\ isMapReady[c]
  /\ requests[c] < MaxCalls
  /\ requests' = [requests EXCEPT ![c] = @ + 1]
  /\ callbacks' = [callbacks EXCEPT ![c]["refreshLocation"] = @ + 1]
  /\ fed' = Called("refreshLocation")
  /\ UNCHANGED <<now, hubVars, clientVars, mounted, pending, watchIdRef,
                 watches, locationPermission, bearingResets, userMarkerRef,
                 sent>>

\* resetMapRotation of the component, reachable as window.resetMapRotation
ResetMapRotation(c) ==
  /\ mounted[c]
  /\ isMapReady[c]
  /\ bearingResets[c] < MaxCalls
  /\ bearingResets' = [bearingResets EXCEPT ![c] = @ + 1]
  /\ fed' = Called("resetMapRotation")
  /\ UNCHANGED <<now, hubVars, clientVars, mounted, pending, watchIdRef,
                 watches, locationPermission, requests, ownVars>>

\* isMapReady as handleLocationSuccess sees it when requestLocationPermission
\* calls it: requestLocationPermission is memoised on [updateStatus,
\* geolocationOptions], which never change, so it keeps calling the
\* handleLocationSuccess of the first render, whose isMapReady is false
FirstRenderIsMapReady == FALSE

\* handleLocationSuccess with the isMapReady its closure holds: it returns
\* early unless the map instance exists and that isMapReady is true, and
\* otherwise places or moves the own marker and emits one send-location
HandleLocationSuccess(c, closureIsMapReady) ==
  IF ~isMapReady[c] \/ ~closureIsMapReady
    THEN UNCHANGED <<userMarkerRef, sent>>
    ELSE /\ userMarkerRef' = [userMarkerRef EXCEPT ![c] = TRUE]
         /\ sent' = [sent EXCEPT ![c] = @ + 1]

Sampled(f, ok) == [op |-> "position", to |-> f, ok |-> ok]

\* navigator.geolocation answers a getCurrentPosition request made by
\* function f, with a position (ok) or with an error
PositionCallback(c, f, ok) ==
  /\ callbacks[c][f] > 0
  /\ callbacks' = [callbacks EXCEPT ![c][f] = @ - 1]
  /\ fed' = Sampled(f, ok)
  /\ IF f = "requestLocationPermission"
       THEN /\ locationPermission' =
                 IF mounted[c]
                   THEN [locationPermission EXCEPT
                           ![c] = IF ok THEN "granted" ELSE "denied"]
                   ELSE locationPermission
            /\ IF ok THEN HandleLocationSuccess(c, FirstRenderIsMapReady)
                     ELSE UNCHANGED <<userMarkerRef, sent>>
       ELSE /\ UNCHANGED locationPermission
            /\ IF ok THEN HandleLocationSuccess(c, TRUE)
                     ELSE UNCHANGED <<userMarkerRef, sent>>
  /\ UNCHANGED <<now, hubVars, clientVars, mounted, pending, watchIdRef,
                 watches, requests, bearingResets>>

\* an active watch delivers a position to the handleLocationSuccess the
\* watch effect passed to watchPosition (its isMapReady is true)
WatchPosition(c) ==
  /\ watches[c] # {}
  /\ sent[c] < MaxCalls
  /\ fed' = Sampled("watchPosition", TRUE)
  /\ HandleLocationSuccess(c, TRUE)
  /\ UNCHANGED <<now, hubVars, clientVars, mounted, pending, watchIdRef,
                 watches, locationPermission, requests, bearingResets,
                 callbacks>>

PageNext ==
  \/ MapReady(Tab)
  \/ \E state \in PermissionStates : PermissionResolved(Tab, state)
  \/ Unmount(Tab)
  \/ RequestLocationPermission(Tab)
  \/ ClickRefresh(Tab)
  \/ ClickNorth(Tab)
  \/ RefreshLocation(Tab)
  \/ ResetMapRotation(Tab)
  \/ \E f \in Requesters, ok \in BOOLEAN : PositionCallback(Tab, f, ok)
  \/ WatchPosition(Tab)

PageSpec == Init /\ [][PageNext]_vars

(***************************************************************************)
(* Properties of the Presence Hub.                                         *)
(***************************************************************************)
\* a report with numeric latitude in [-90, 90] and longitude in [-180, 180]
InRange(x, lo, hi) == x.t = "number" /\ lo <= x.v /\ x.v <= hi

ValidReport(data) ==
  /\ "latitude" \in DOMAIN data
  /\ InRange(data.latitude, -90, 90)
  /\ InRange(data.longitude, -180, 180)

\* the last event queued on socket s, if any
LastQueued(s) == inbox[s][Len(inbox[s])]

\* number of times event m is queued in seq
Count(seq, m) == Cardinality({i \in 1..Len(seq) : seq[i] = m})

\* C1: a valid report from a connected socket x updates x's record and
\* appends exactly one receive-location event, carrying x and the report's
\* fields unchanged, to the queue of every other connected socket, and
\* nothing to the queue of x or of any socket that is not connected.
C1_ValidReportBroadcast ==
  [][\A x \in Ids, data \in ReportInputs :
       (ValidReport(data) /\ OnSendLocation(x, data)) =>
         /\ x \in DOMAIN connectedUsers'
         /\ connectedUsers'[x].latitude = data.latitude
         /\ connectedUsers'[x].longitude = data.longitude
         /\ connectedUsers'[x].accuracy = data.accuracy
         /\ connectedUsers'[x].timestamp = data.timestamp
         /\ \A y \in sockets \ {x} :
              inbox'[y] = Append(inbox[y],
                [event |-> "receive-location", id |-> x,
                 latitude |-> data.latitude, longitude |-> data.longitude,
                 accuracy |-> data.accuracy, timestamp |-> data.timestamp])
         /\ \A y \in (Ids \ sockets) \cup {x} : inbox'[y] = inbox[y]]_vars

\* three sockets are connected, the last event queued for two of them is the
\* third one's report (-90, 180), which is also what its record holds, and
\* nothing is queued for the sender
C1_Witness ==
  \E x \in sockets :
    /\ Cardinality(sockets) = 3
    /\ connectedUsers[x].latitude = Num(-90)
    /\ inbox[x] = << >>
    /\ \A y \in sockets \ {x} :
         /\ Len(inbox[y]) = 1
         /\ inbox[y][1].event = "receive-location"
         /\ inbox[y][1].id = x
         /\ inbox[y][1].longitude = Num(180)

\* C2: an invalid report (latitude or longitude not a number or out of
\* range, or a payload that cannot be destructured) from socket x queues
\* no event for any other socket, exactly one error event for x, and leaves
\* the registry, with x's stored position, unchanged.
C2_InvalidReportRejected ==
  [][\A x \in Ids, data \in ReportInputs :
       (~ValidReport(data) /\ OnSendLocation(x, data)) =>
         /\ connectedUsers' = connectedUsers
         /\ \A y \in Ids \ {x} : inbox'[y] = inbox[y]
         /\ Len(inbox'[x]) = Len(inbox[x]) + 1
         /\ SubSeq(inbox'[x], 1, Len(inbox[x])) = inbox[x]
         /\ inbox'[x][Len(inbox'[x])].event = "error"]_vars

\* a socket that has a stored position has an error event queued last, while
\* another connected socket has nothing queued
C2_Witness ==
  \E x \in sockets, y \in sockets :
    /\ x # y
    /\ connectedUsers[x].latitude = Num(10)
    /\ inbox[x] # << >>
    /\ LastQueued(x).event = "error"
    /\ inbox[y] = << >>

\* C3: the registry has a record for a socket id if and only if that
\* connection is open; the id of a closed connection has no record.
C3_RegistryIffOpen ==
  /\ DOMAIN connectedUsers = sockets
  /\ \A c \in Clients : sid[c] # 0 => sid[c] \in DOMAIN connectedUsers
  /\ \A id \in Ids : id >= nextId => id \notin DOMAIN connectedUsers

\* a connection that reported a position was closed and has no record, while
\* another one is still open and has one
C3_Witness ==
  \E x \in Ids, y \in sockets, c \in Clients :
    /\ x < nextId
    /\ x \notin sockets
    /\ x \in DOMAIN markersRef[c]
    /\ connectedUsers[y].latitude # Undefined

\* C4: when the connection of socket x is torn down, x's record is removed
\* and every socket that remains connected gets the user-disconnected event
\* for x queued exactly once; no later step queues that event again.
C4_DisconnectBroadcastOnce ==
  [][/\ \A x \in Ids :
          OnDisconnect(x) =>
            /\ x \notin DOMAIN connectedUsers'
            /\ \A y \in sockets \ {x} :
                 inbox'[y] = Append(inbox[y], [event |-> "user-disconnected", id |-> x])
     /\ \A x \in Ids :
          (x < nextId /\ x \notin sockets) =>
            \A y \in Ids :
              Count(inbox'[y], [event |-> "user-disconnected", id |-> x])
                <= Count(inbox[y], [event |-> "user-disconnected", id |-> x])]_vars

\* a socket that reported a position has left, and the socket that remains
\* has the user-disconnected event for it queued once
C4_Witness ==
  \E x \in Ids, y \in sockets, c \in Clients :
    /\ x < nextId
    /\ x \notin sockets
    /\ x \in DOMAIN markersRef[c]
    /\ sid[c] = y
    /\ Count(inbox[y], [event |-> "user-disconnected", id |-> x]) = 1

\* C5: running the disconnect handler for an id that is already absent from
\* the registry changes no registry state and queues no event.
C5_DisconnectIdempotent ==
  [][\A x \in Ids :
       OnDisconnectAgain(x) =>
         /\ connectedUsers' = connectedUsers
         /\ inbox' = inbox]_vars

(***************************************************************************)
(* Properties of the Peer Reconciler.                                      *)
(***************************************************************************)
\* every queue of a connected socket has been read
Quiet == \A s \in Ids : inbox[s] = << >>

\* C6: once socket x has disconnected and every queued event has been read,
\* no connected tab holds a marker for x, also when the tab itself was
\* disconnected and reconnected around the time x left.
C6_DepartedPeerRemoved ==
  \A c \in Clients, x \in Ids :
    (x < nextId /\ x \notin sockets /\ sid[c] # 0 /\ Quiet)
      => x \notin DOMAIN markersRef[c]

\* the step is the tab, its listeners registered, reading event msg
Reads(msg) == isMapReady[Tab] /\ Feed(Tab, msg)

\* the receive-location events whose reading leaves fed' as it is
ReadEvents ==
  IF fed'.op = "event" /\ fed'.event = "receive-location"
    THEN { ReceiveLocationMsg(fed'.id, pos[1], pos[2], acc, fed'.timestamp) :
             pos \in Positions, acc \in Accuracies }
    ELSE {}

\* the user-disconnected events whose reading leaves fed' as it is
ReadDisconnects ==
  IF fed'.op = "event" /\ fed'.event = "user-disconnected"
    THEN {UserDisconnectedMsg(fed'.id)}
    ELSE {}

\* age of the event recorded in fed when it was read (-1: no numeric
\* timestamp)
FedAge == IF fed.timestamp.t = "number" THEN fed.at - fed.timestamp.v ELSE -1

\* C7: a position event whose id is the tab's current socket id leaves the
\* marker table as it is, whatever id the socket has after reconnects.
C7_SelfEchoIgnored ==
  [][\A msg \in ReadEvents :
       (msg.id = sid[Tab] /\ Reads(msg)) =>
         /\ markersRef' = markersRef
         /\ leaked' = leaked]_vars

\* after a reconnect (the socket id is no longer the first one) the tab read
\* a fresh event carrying its own current id and holds no marker for it,
\* while it holds the marker of another client
C7_Witness ==
  /\ fed.op = "event"
  /\ fed.event = "receive-location"
  /\ isMapReady[Tab]
  /\ fed.self = sid[Tab]
  /\ fed.self > 1
  /\ fed.id = fed.self
  /\ fed.timestamp.t = "number"
  /\ FedAge <= DataExpiry
  /\ fed.self \notin DOMAIN markersRef[Tab]
  /\ markersRef[Tab] # << >>

\* C8: a position event from another client is dropped (marker table left as
\* it is) if now - timestamp > 30000, and accepted (the marker for its id
\* exists afterwards, at the event's position) if now - timestamp <= 30000.
C8_StaleDropped ==
  [][\A msg \in ReadEvents :
       (msg.id # sid[Tab] /\ Reads(msg)) =>
         LET age == now - msg.timestamp.v
         IN /\ (msg.timestamp.t = "number" /\ age > DataExpiry) =>
                 /\ markersRef' = markersRef
                 /\ leaked' = leaked
            /\ (msg.timestamp.t = "number" /\ age <= DataExpiry) =>
                 /\ msg.id \in DOMAIN markersRef'[Tab]
                 /\ markersRef'[Tab][msg.id].latitude = msg.latitude
                 /\ markersRef'[Tab][msg.id].longitude = msg.longitude]_vars

\* the tab has just read an event of another client that was 30001 ms old
\* and holds no marker for that client, while it holds one for another client
C8_Witness ==
  /\ fed.op = "event"
  /\ fed.event = "receive-location"
  /\ isMapReady[Tab]
  /\ fed.id # fed.self
  /\ fed.at = now
  /\ FedAge = DataExpiry + 1
  /\ fed.id \notin DOMAIN markersRef[Tab]
  /\ markersRef[Tab] # << >>

\* radius of the accuracy disc a marker shows on the map (0: none)
ShownRadius(marker) ==
  IF marker.accuracyCircle.set /\ marker.accuracyCircle.onMap
    THEN marker.accuracyCircle.radius
    ELSE Num(0)

\* radius of the accuracy disc an event asks for (0: no accuracy given)
EventRadius(accuracy) == IF accuracy = Undefined THEN Num(0) ELSE accuracy

\* C9: an accepted position event (not the tab's own, not stale) adds one
\* marker for its id if there is none and otherwise updates the existing one
\* in place; afterwards that marker is at the event's latitude and longitude
\* and shows the event's accuracy, no other marker has changed and no layer
\* is left on the map without a marker.
C9_CreateOrUpdate ==
  [][\A msg \in ReadEvents :
       (/\ msg.id # sid[Tab]
        /\ msg.timestamp.t = "number"
        /\ now - msg.timestamp.v <= DataExpiry
        /\ Reads(msg)) =>
         LET old == markersRef[Tab]
             new == markersRef'[Tab]
         IN /\ DOMAIN new = DOMAIN old \cup {msg.id}
            /\ new[msg.id].latitude = msg.latitude
            /\ new[msg.id].longitude = msg.longitude
            /\ ShownRadius(new[msg.id]) = EventRadius(msg.accuracy)
            /\ \A k \in DOMAIN old \ {msg.id} : new[k] = old[k]
            /\ leaked' = leaked]_vars

\* the tab has read an accepted event without accuracy for a client whose
\* marker had an accuracy circle: the marker is at (-90, 20) with its circle
\* off the map, and the marker of another client is still there
C9_Witness ==
  /\ fed.op = "event"
  /\ fed.event = "receive-location"
  /\ fed.id # fed.self
  /\ fed.timestamp.t = "number"
  /\ FedAge <= DataExpiry
  /\ fed.id \in DOMAIN markersRef[Tab]
  /\ markersRef[Tab][fed.id].latitude = Num(-90)
  /\ markersRef[Tab][fed.id].accuracyCircle.set
  /\ ~markersRef[Tab][fed.id].accuracyCircle.onMap
  /\ Cardinality(DOMAIN markersRef[Tab]) = 2

\* C10: a user-disconnected event for id removes the marker of id if there
\* is one and leaves every other marker as it is; for an unknown id nothing
\* changes.
C10_DisconnectEventFrame ==
  [][\A msg \in ReadDisconnects :
       Reads(msg) =>
         LET id == msg.id
             old == markersRef[Tab]
             new == markersRef'[Tab]
         IN /\ DOMAIN new = DOMAIN old \ {id}
            /\ \A k \in DOMAIN new : new[k] = old[k]
            /\ id \notin DOMAIN old => markersRef' = markersRef
            /\ leaked' = leaked]_vars

\* the tab read a user-disconnected event for an id it holds no marker for,
\* and still holds the markers of two other clients
C10_Witness ==
  /\ fed.op = "event"
  /\ fed.event = "user-disconnected"
  /\ isMapReady[Tab]
  /\ fed.id \notin DOMAIN markersRef[Tab]
  /\ Cardinality(DOMAIN markersRef[Tab]) = 2

\* C11: when a tab's socket connects again after a disconnect, the tab's
\* marker table is empty right after the reconnect, before any new position
\* event is read.
C11_ResetOnReconnect ==
  [][\A c \in Clients : Connect(c) => markersRef'[c] = << >>]_vars

\* a position event lacking a numeric latitude, longitude or timestamp
Malformed(msg) ==
  \/ msg.latitude.t # "number"
  \/ msg.longitude.t # "number"
  \/ msg.timestamp.t # "number"

\* C12: a malformed position event (latitude, longitude or timestamp missing
\* or not a number) read by the tab is dropped: it creates no marker and
\* changes none.
C12_MalformedDropped ==
  [][\A msg \in ReadEvents :
       (Malformed(msg) /\ Reads(msg)) =>
         /\ markersRef' = markersRef
         /\ leaked' = leaked]_vars

\* C13: with N clients connected, a connected tab (its map ready and every
\* queued event read) holds exactly N - 1 markers: one for every other
\* connected socket and none for its own.
C13_OneViewPerPeer ==
  \A c \in Clients :
    (sid[c] # 0 /\ isMapReady[c] /\ Quiet)
      => DOMAIN markersRef[c] = sockets \ {sid[c]}

(***************************************************************************)
(* Further properties of the Presence Hub.                                 *)
(***************************************************************************)
\* the positions of the receive-location events of socket x queued for
\* socket y, in queue order
RECURSIVE QueuedFrom(_, _)
QueuedFrom(seq, x) ==
  IF seq = << >> THEN << >>
  ELSE LET m == Head(seq)
           rest == QueuedFrom(Tail(seq), x)
       IN IF m.event = "receive-location" /\ m.id = x
            THEN <<Report(m.latitude, m.longitude, m.accuracy, m.timestamp)>> \o rest
            ELSE rest

\* the position the registry holds for socket x
Stored(x) ==
  Report(connectedUsers[x].latitude, connectedUsers[x].longitude,
         connectedUsers[x].accuracy, connectedUsers[x].timestamp)

\* C14: the receive-location events for one socket x reach every other
\* socket in the order in which the Hub validated x's reports: in every
\* queue the events of x stand oldest first, so the last one of them carries
\* the report validated last, which is the position the registry holds for x.
C14_PerClientOrder ==
  \A x \in sockets, y \in sockets :
    LET from == QueuedFrom(inbox[y], x)
    IN (x # y /\ from # << >>) => from[Len(from)] = Stored(x)

\* two different reports of one socket are queued for another socket, the
\* older (10, 20) before the newer (-90, 180)
C14_Witness ==
  \E x \in sockets, y \in sockets :
    LET from == QueuedFrom(inbox[y], x)
    IN /\ x # y
       /\ Len(from) = 2
       /\ from[1].latitude = Num(10)
       /\ from[2].latitude = Num(-90)
       /\ Stored(x).latitude = Num(-90)

\* C15: every position the registry holds and every receive-location event
\* the Hub has queued has a numeric latitude in [-90, 90] and a numeric
\* longitude in [-180, 180]; NaN and Infinity are never stored or broadcast.
C15_StoredAndBroadcastInRange ==
  /\ \A x \in DOMAIN connectedUsers :
       \/ /\ connectedUsers[x].latitude = Undefined
          /\ connectedUsers[x].longitude = Undefined
       \/ /\ InRange(connectedUsers[x].latitude, -90, 90)
          /\ InRange(connectedUsers[x].longitude, -180, 180)
  /\ \A s \in Ids : \A i \in 1..Len(inbox[s]) :
       inbox[s][i].event = "receive-location" =>
         /\ InRange(inbox[s][i].latitude, -90, 90)
         /\ InRange(inbox[s][i].longitude, -180, 180)

\* a socket whose record holds the boundary position (-90, 180), queued for
\* another socket, has had a later report rejected: the error is queued and
\* the record still holds (-90, 180)
C15_Witness ==
  \E x \in sockets, y \in sockets :
    /\ x # y
    /\ connectedUsers[x].latitude = Num(-90)
    /\ connectedUsers[x].longitude = Num(180)
    /\ QueuedFrom(inbox[y], x) = <<Stored(x)>>
    /\ inbox[x] # << >>
    /\ LastQueued(x).event = "error"

\* C16: a new connection adds exactly one record to the registry, for the
\* new socket id, with connectedAt set and no position; the registry grows
\* by one and the other records stay as they are; the ack {id, message} is
\* queued for the new socket only and no other socket gets anything.
C16_ConnectRegistersAndAcks ==
  [][OnConnection =>
       LET id == nextId
       IN /\ id \notin DOMAIN connectedUsers
          /\ DOMAIN connectedUsers' = DOMAIN connectedUsers \cup {id}
          /\ Cardinality(DOMAIN connectedUsers')
               = Cardinality(DOMAIN connectedUsers) + 1
          /\ \A k \in DOMAIN connectedUsers :
               connectedUsers'[k] = connectedUsers[k]
          /\ connectedUsers'[id].connectedAt = Num(now)
          /\ connectedUsers'[id].latitude = Undefined
          /\ connectedUsers'[id].longitude = Undefined
          /\ connectedUsers'[id].accuracy = Undefined
          /\ connectedUsers'[id].timestamp = Undefined
          /\ inbox'[id] =
               Append(inbox[id], [event |-> "connected", id |-> id,
                                  message |-> "Connected to server"])
          /\ \A y \in Ids \ {id} : inbox'[y] = inbox[y]]_vars

\* a second socket has connected after the first one reported a position:
\* it has a record without position and its ack queued, the first socket has
\* nothing queued and its record still holds the position
C16_Witness ==
  /\ sockets = {1, 2}
  /\ nextId = 3
  /\ connectedUsers[1].latitude = Num(10)
  /\ connectedUsers[2].latitude = Undefined
  /\ connectedUsers[2].connectedAt = Num(now)
  /\ inbox[1] = << >>
  /\ Len(inbox[2]) = 1
  /\ inbox[2][1].event = "connected"
  /\ inbox[2][1].id = 2

\* an error event is among the events in seq
HasError(seq) == \E i \in 1..Len(seq) : seq[i].event = "error"

\* C17: a rejected report is not fatal and touches nothing beyond the error
\* reply: after it the sender x is still connected and registered and every
\* record is as before; and a valid report from a socket that has had a
\* report rejected (the error is still queued for it) is stored and
\* broadcast to every other socket as usual, the rest of its record kept.
C17_RejectionScoped ==
  [][\A x \in Ids, data \in ReportInputs :
       OnSendLocation(x, data) =>
         /\ ~ValidReport(data) =>
              /\ sockets' = sockets
              /\ x \in sockets'
              /\ x \in DOMAIN connectedUsers'
              /\ connectedUsers' = connectedUsers
         /\ (ValidReport(data) /\ HasError(inbox[x])) =>
              /\ connectedUsers'[x] =
                   [connectedUsers[x] EXCEPT
                      !.latitude = data.latitude, !.longitude = data.longitude,
                      !.accuracy = data.accuracy, !.timestamp = data.timestamp,
                      !.lastUpdate = Num(now)]
              /\ connectedUsers'[x].connectedAt.t = "number"
              /\ \A y \in DOMAIN connectedUsers \ {x} :
                   connectedUsers'[y] = connectedUsers[y]
              /\ \A y \in sockets \ {x} :
                   /\ Len(inbox'[y]) = Len(inbox[y]) + 1
                   /\ QueuedFrom(<<inbox'[y][Len(inbox'[y])]>>, x)
                        = <<Report(data.latitude, data.longitude,
                                   data.accuracy, data.timestamp)>>]_vars

\* a socket that has had a report rejected (the error is the oldest event
\* still queued for it) is registered with its connectedAt, and a valid
\* report of it is stored and queued for another socket
C17_Witness ==
  \E x \in sockets, y \in sockets :
    /\ x # y
    /\ inbox[x] # << >>
    /\ Head(inbox[x]).event = "error"
    /\ connectedUsers[x].latitude = Num(10)
    /\ connectedUsers[x].connectedAt.t = "number"
    /\ QueuedFrom(inbox[y], x) = <<Stored(x)>>
    /\ connectedUsers[y].latitude = Undefined

\* an accuracy that is absent or a non-negative number
AccuracyOk(accuracy) ==
  accuracy = Undefined \/ (accuracy.t = "number" /\ accuracy.v >= 0)

\* C18: every position the registry holds and every receive-location event
\* the Hub has queued has an accuracy that is absent or a non-negative
\* number.
C18_AccuracyNonNegative ==
  /\ \A x \in DOMAIN connectedUsers : AccuracyOk(connectedUsers[x].accuracy)
  /\ \A s \in Ids : \A i \in 1..Len(inbox[s]) :
       inbox[s][i].event = "receive-location" =>
         AccuracyOk(inbox[s][i].accuracy)

(***************************************************************************)
(* Properties of the page's controls and of the geolocation watch.         *)
(***************************************************************************)
\* C19: with the map ready, a click on the refresh button makes a new
\* getCurrentPosition request, and a click on the north indicator resets the
\* map's bearing to 0.
C19_ControlsAct ==
  [][\A c \in Clients :
       /\ (ClickRefresh(c) /\ isMapReady[c]) => requests'[c] = requests[c] + 1
       /\ (ClickNorth(c) /\ isMapReady[c]) =>
            bearingResets'[c] = bearingResets[c] + 1]_vars

\* C20: a tab has at most one geolocation watch active, the active watch is
\* the one watchIdRef names, and once the cleanup of the watch effect has run
\* (the component is unmounted) no watch is left active, whenever the
\* permission check resolves.
C20_SingleWatchCleared ==
  \A c \in Clients :
    /\ Cardinality(watches[c]) <= 1
    /\ watches[c] # {} => watches[c] = {watchIdRef[c]}
    /\ ~mounted[c] => watches[c] = {}

\* C21: when the location permission of a tab is granted with the map ready
\* and the permission check of the watch effect is over, a geolocation watch
\* is active for the tab, whether the grant came from the initial check or
\* from the Allow Location Access button.  (No step starts a watch once the
\* check is over, so a state without a watch never gets one.)
C21_GrantedStartsWatch ==
  \A c \in Clients :
    (mounted[c] /\ isMapReady[c] /\ ~pending[c]
       /\ locationPermission[c] = "granted")
      => watches[c] # {}

\* C22: when the request made by the Allow Location Access button is
\* answered with a position while the map is ready, the own marker is placed
\* and one send-location report is emitted.
C22_AllowedPositionProcessed ==
  [][\A c \in Clients :
       (mounted[c] /\ isMapReady[c]
          /\ PositionCallback(c, "requestLocationPermission", TRUE))
         => /\ userMarkerRef'[c]
            /\ sent'[c] = sent[c] + 1]_vars

\* C23: after any sequence of receive-location and user-disconnected events
\* the peer layers on the tab's map are those of its marker table: one
\* marker per entry, at most one accuracy circle per entry, and no layer
\* (circle of an earlier update, marker or circle of a removed peer) that
\* no entry refers to.
C23_LayersMatchViews ==
  \A c \in Clients :
    /\ leaked[c] = 0
    /\ \A id \in DOMAIN markersRef[c] : OnMapCircles(markersRef[c][id]) <= 1

\* the tab has just read a user-disconnected event and no longer holds a
\* marker for that id; the marker it still holds was updated without
\* accuracy after it had a circle, which is now off the map
C23_Witness ==
  /\ fed.op = "event"
  /\ fed.event = "user-disconnected"
  /\ isMapReady[Tab]
  /\ fed.id \notin DOMAIN markersRef[Tab]
  /\ \E id \in DOMAIN markersRef[Tab] :
       /\ markersRef[Tab][id].accuracyCircle.set
       /\ ~markersRef[Tab][id].accuracyCircle.onMap
  /\ leaked[Tab] = 0

\* C24: a valid report from socket x changes only x's record: the registry
\* has the same keys afterwards, x's connectedAt is the one it had, and the
\* record of every other socket is unchanged.
C24_ValidReportFrame ==
  [][\A x \in Ids, data \in ReportInputs :
       (ValidReport(data) /\ OnSendLocation(x, data)) =>
         /\ DOMAIN connectedUsers' = DOMAIN connectedUsers
         /\ connectedUsers'[x].connectedAt = connectedUsers[x].connectedAt
         /\ connectedUsers'[x].connectedAt.t = "number"
         /\ \A y \in DOMAIN connectedUsers \ {x} :
              connectedUsers'[y] = connectedUsers[y]]_vars

\* three sockets are registered with their connectedAt; two of them hold
\* different positions, the report of one of them is queued for the other
\* two, and the third has no position
C24_Witness ==
  \E x \in sockets, y \in sockets, z \in sockets :
    /\ Cardinality({x, y, z}) = 3
    /\ connectedUsers[x].latitude = Num(-90)
    /\ connectedUsers[y].latitude = Num(10)
    /\ connectedUsers[z].latitude = Undefined
    /\ \A k \in {x, y, z} : connectedUsers[k].connectedAt.t = "number"
    /\ QueuedFrom(inbox[y], x) = <<Stored(x)>>
    /\ QueuedFrom(inbox[z], x) = <<Stored(x)>>

\* C25: the Hub is initialised at most once per server.  A call of
\* SocketHandler never leaves more than one Socket.IO server; the first call
\* with a socket creates it with an empty registry; every call that finds
\* server.io set, and every call without an underlying socket, creates no
\* Socket.IO server and no registry and leaves the existing registry, the
\* connections and their queues as they were; a call without an underlying
\* socket is answered 500 and a call that finds server.io set is ended 200.
C25_InitialisedOnce ==
  [][\A hasSocket \in BOOLEAN :
       SocketHandler(hasSocket) =>
         /\ servers' <= 1
         /\ (hasSocket /\ servers = 0) =>
              (servers' = 1 /\ connectedUsers' = << >>)
         /\ (~hasSocket \/ servers >= 1) => UNCHANGED hubVars
         /\ ~hasSocket => fed'.status = 500
         /\ (hasSocket /\ servers >= 1) =>
              fed' = Answered(200, "Socket is already running")]_vars

\* a request has found the Socket.IO server running while the registry
\* holds two sockets, one of them with a stored position
C25_Witness ==
  /\ servers = 1
  /\ fed = Answered(200, "Socket is already running")
  /\ Cardinality(DOMAIN connectedUsers) = 2
  /\ \E x \in DOMAIN connectedUsers : connectedUsers[x].latitude = Num(10)

====
